---- MODULE Spec2Model ----
(***************************************************************************)
(* Crazy Eights (src/src/App.tsx): the game state held in the App          *)
(* component's useState cells, the event handlers that update it, and the  *)
(* timers (setTimeout) the handlers and the AI-turn effect schedule.       *)
(*                                                                         *)
(* Every handler and every timer callback runs to completion; React        *)
(* batches the setState calls of one callback into one render, so one      *)
(* callback is one step.  A callback reads the state of the render that    *)
(* created it: a click handler reads the current render, a timer callback  *)
(* reads the render that scheduled it.  The captured values are kept in    *)
(* the timer's record.                                                     *)
(***************************************************************************)
EXTENDS Integers, Sequences, FiniteSets, TLC

VARIABLES deck, playerHand, aiHand, discardPile, currentSuit, turn, phase,
          showSuitPicker, pendingEightCard, passTimers, aiTimer, playTimer

vars == <<deck, playerHand, aiHand, discardPile, currentSuit, turn, phase,
          showSuitPicker, pendingEightCard, passTimers, aiTimer, playTimer>>

\* The containers and table fields the claims speak about.
table == <<deck, playerHand, aiHand, discardPile, currentSuit>>

-----------------------------------------------------------------------------
\* types.ts

SUITS == <<"hearts", "diamonds", "clubs", "spades">>

RANKS == <<"A", "2", "3", "4", "5", "6", "7", "8", "9", "10", "J", "Q", "K">>

\* A card; its id `${rank}-${suit}` is determined by (rank, suit), so two
\* cards have the same id exactly when the records are equal.
CardData(rank, suit) == [suit |-> suit, rank |-> rank]

\* null (no pending card, no timer)
NULL == [null |-> TRUE]

\* Cards dealt to each hand by initGame (splice(0, 8)).
HandSize == 8

\* Bounds of the exploration.  At most MaxPassTimers delayed turn passes of
\* handleDraw are pending at once.  While the deck is not empty and both hands
\* hold more than EndgameHand cards the human plays the first legal card of
\* the hand and draws only when there is none; from then on every click the
\* interface allows is explored.
MaxPassTimers == 1

EndgameHand == 1

-----------------------------------------------------------------------------
\* Sequence helpers (Array.prototype.filter, last element, membership)

Range(s) == {s[i] : i \in 1..Len(s)}

Last(s) == s[Len(s)]

Without(s, card) == SelectSeq(s, LAMBDA c : c # card)

NoDup(s) == \A i, j \in 1..Len(s) : i # j => s[i] # s[j]

\* createDeck: suit-major, rank-minor build order.
createDeck ==
  [i \in 1..(Len(SUITS) * Len(RANKS)) |->
     CardData(RANKS[((i - 1) % Len(RANKS)) + 1], SUITS[((i - 1) \div Len(RANKS)) + 1])]

Reverse(s) == [i \in 1..Len(s) |-> s[Len(s) + 1 - i]]

Hearts(ranks) == [i \in 1..Len(ranks) |-> CardData(ranks[i], "hearts")]

Diamonds(ranks) == [i \in 1..Len(ranks) |-> CardData(ranks[i], "diamonds")]

Clubs(ranks) == [i \in 1..Len(ranks) |-> CardData(ranks[i], "clubs")]

Spades(ranks) == [i \in 1..Len(ranks) |-> CardData(ranks[i], "spades")]

\* The shuffled deck that deals pHand and aHand, turns up firstDiscard and is
\* then drawn (deck.pop()) in the order draws.
Deal(pHand, aHand, draws, firstDiscard) ==
  pHand \o aHand \o Reverse(draws) \o <<firstDiscard>>

\* A deal whose game runs through the whole deck: each hand is one suit, and
\* through most of the draw pile the side to move draws a card it can play
\* at once.
LongDeal ==
  Deal(Hearts(<<"A", "2", "3", "4", "5", "6", "7", "9">>),
       Spades(<<"A", "2", "3", "4", "5", "6", "7", "9">>),
       Diamonds(<<"10">>) \o Spades(<<"10">>) \o Hearts(<<"10">>)
         \o Clubs(<<"10", "J">>) \o Spades(<<"J">>) \o Hearts(<<"J">>)
         \o Diamonds(<<"J", "Q">>) \o Spades(<<"Q">>) \o Hearts(<<"Q">>)
         \o Clubs(<<"Q", "K">>) \o Spades(<<"K">>) \o Hearts(<<"K">>)
         \o Diamonds(<<"K", "A">>) \o Clubs(<<"A", "2">>)
         \o Diamonds(<<"2", "3">>) \o Clubs(<<"3", "4">>)
         \o Diamonds(<<"4", "6", "7">>) \o Clubs(<<"5">>) \o Diamonds(<<"9">>)
         \o Clubs(<<"6", "7", "8">>) \o Diamonds(<<"5">>) \o Spades(<<"8">>)
         \o Hearts(<<"8">>) \o Clubs(<<"9">>),
       CardData("8", "diamonds"))

\* A deal that gives the AI the four 8s and the human a mixed hand.
ShortDeal ==
  Deal(Hearts(<<"A">>) \o Clubs(<<"3">>) \o Diamonds(<<"A">>)
         \o Spades(<<"7">>) \o Clubs(<<"4">>) \o Spades(<<"2">>)
         \o Hearts(<<"6">>) \o Spades(<<"9">>),
       Diamonds(<<"8">>) \o Hearts(<<"8", "J">>) \o Clubs(<<"8">>)
         \o Diamonds(<<"K">>) \o Clubs(<<"2">>) \o Spades(<<"8", "6">>),
       Hearts(<<"9", "7">>) \o Spades(<<"A">>) \o Hearts(<<"10">>)
         \o Diamonds(<<"3", "J">>) \o Clubs(<<"10">>) \o Diamonds(<<"Q">>)
         \o Spades(<<"10">>) \o Hearts(<<"5">>) \o Clubs(<<"J">>)
         \o Diamonds(<<"7", "2">>) \o Spades(<<"Q", "K">>)
         \o Diamonds(<<"9">>) \o Clubs(<<"7">>) \o Hearts(<<"4", "3">>)
         \o Diamonds(<<"4">>) \o Hearts(<<"Q">>) \o Diamonds(<<"5">>)
         \o Spades(<<"3">>) \o Clubs(<<"6">>) \o Spades(<<"J">>)
         \o Hearts(<<"2">>) \o Clubs(<<"Q", "9">>) \o Hearts(<<"K">>)
         \o Diamonds(<<"6", "10">>) \o Spades(<<"5">>) \o Clubs(<<"A", "K">>)
         \o Spades(<<"4">>),
       CardData("5", "clubs"))

\* shuffle: Fisher-Yates with Math.random; every permutation of its input is
\* a possible result.  The exploration deals LongDeal at mount and ShortDeal
\* at every restart.
Shuffles == {LongDeal}

Reshuffles == {ShortDeal}

-----------------------------------------------------------------------------
\* isValidMove comparing the card's suit with the suit of the top discard
\* instead of the active suit.
isValidMoveTopSuit(card, suit, topDiscard) ==
  IF card.rank = "8" THEN TRUE
  ELSE IF suit # "null" /\ card.suit = topDiscard.suit THEN TRUE
  ELSE IF card.rank = topDiscard.rank THEN TRUE
  ELSE FALSE

\* isValidMove without the wild rule: an 8 is matched like any other card.
isValidMoveNoWild(card, suit, topDiscard) ==
  IF suit # "null" /\ card.suit = suit THEN TRUE
  ELSE IF card.rank = topDiscard.rank THEN TRUE
  ELSE FALSE

\* isValidMove, with the render's currentSuit and topDiscard made explicit.
isValidMove(card, suit, topDiscard) ==
  IF card.rank = "8" THEN TRUE
  ELSE IF suit # "null" /\ card.suit = suit THEN TRUE
  ELSE IF card.rank = topDiscard.rank THEN TRUE
  ELSE FALSE

\* topDiscard of the current render
topDiscard == Last(discardPile)

\* The closure of the render the AI-turn effect ran in.
Closure == [aiHand |-> aiHand', deck |-> deck', currentSuit |-> currentSuit',
            topDiscard |-> Last(discardPile')]

\* The AI-turn effect: React re-runs it (cleanup first: clearTimeout) when one
\* of its dependencies [turn, aiHand, phase, deck, currentSuit] changed.
\* arrays: the step stored a new deck or aiHand array. before: the think timer
\* left by the step so far (NULL when the step is the timer firing).
AIEffect(arrays, before) ==
  aiTimer' =
    IF arrays \/ turn' # turn \/ phase' # phase \/ currentSuit' # currentSuit
    THEN IF turn' = "ai" /\ phase' = "playing" THEN Closure ELSE NULL
    ELSE before

-----------------------------------------------------------------------------
Init ==
  /\ deck = <<>>
  /\ playerHand = <<>>
  /\ aiHand = <<>>
  /\ discardPile = <<>>
  /\ currentSuit = "null"
  /\ turn = "player"
  /\ phase = "dealing"
  /\ showSuitPicker = FALSE
  /\ pendingEightCard = NULL
  /\ passTimers = 0
  /\ aiTimer = NULL
  /\ playTimer = NULL

\* initGame reading the first discard without taking it off the deck.
initGameKeepsDiscard(fullDeck) ==
  LET pHand == SubSeq(fullDeck, 1, HandSize)
      aHand == SubSeq(fullDeck, HandSize + 1, 2 * HandSize)
      firstDiscard == Last(fullDeck)
  IN /\ deck' = SubSeq(fullDeck, 2 * HandSize + 1, Len(fullDeck))
     /\ playerHand' = pHand
     /\ aiHand' = aHand
     /\ discardPile' = <<firstDiscard>>
     /\ currentSuit' = firstDiscard.suit
     /\ turn' = "player"
     /\ phase' = "playing"
     /\ UNCHANGED <<showSuitPicker, pendingEightCard, passTimers, playTimer>>
     /\ AIEffect(TRUE, aiTimer)

\* initGame taking the first discard from the front of the deck, right after
\* the two hands (shift() instead of pop()).
initGameDiscardFromFront(fullDeck) ==
  LET pHand == SubSeq(fullDeck, 1, HandSize)
      aHand == SubSeq(fullDeck, HandSize + 1, 2 * HandSize)
      firstDiscard == fullDeck[2 * HandSize + 1]
  IN /\ deck' = SubSeq(fullDeck, 2 * HandSize + 2, Len(fullDeck))
     /\ playerHand' = pHand
     /\ aiHand' = aHand
     /\ discardPile' = <<firstDiscard>>
     /\ currentSuit' = firstDiscard.suit
     /\ turn' = "player"
     /\ phase' = "playing"
     /\ UNCHANGED <<showSuitPicker, pendingEightCard, passTimers, playTimer>>
     /\ AIEffect(TRUE, aiTimer)

\* initGame with fullDeck the result of shuffle(createDeck()).
initGame(fullDeck) ==
  LET pHand == SubSeq(fullDeck, 1, HandSize)
      aHand == SubSeq(fullDeck, HandSize + 1, 2 * HandSize)
      firstDiscard == Last(fullDeck)
  IN /\ deck' = SubSeq(fullDeck, 2 * HandSize + 1, Len(fullDeck) - 1)
     /\ playerHand' = pHand
     /\ aiHand' = aHand
     /\ discardPile' = <<firstDiscard>>
     /\ currentSuit' = firstDiscard.suit
     /\ turn' = "player"
     /\ phase' = "playing"
     /\ UNCHANGED <<showSuitPicker, pendingEightCard, passTimers, playTimer>>
     /\ AIEffect(TRUE, aiTimer)

\* The mount effect (useEffect(() => initGame(), [initGame])).
Mount ==
  /\ phase = "dealing"
  /\ \E p \in Shuffles : initGame(p)

\* The restart buttons (onClick={initGame}).
Reset ==
  /\ phase # "dealing"
  /\ \E p \in Reshuffles : initGame(p)

\* The opening of a game, where the exploration follows one line of human
\* play (see EndgameHand).
Opening ==
  /\ Len(deck) > 0
  /\ Len(playerHand) > EndgameHand
  /\ Len(aiHand) > EndgameHand

\* The cards of the player's hand that isValidMove accepts, in hand order.
legalCards ==
  SelectSeq(playerHand, LAMBDA c : isValidMove(c, currentSuit, topDiscard))

\* handleDraw turning the discard pile under its top card into the new deck
\* when the deck is empty.
handleDrawRecycle ==
  IF turn # "player" \/ phase # "playing" \/ showSuitPicker
  THEN UNCHANGED vars
  ELSE IF Len(deck) = 0
  THEN /\ passTimers < MaxPassTimers
       /\ passTimers' = passTimers + 1
       /\ deck' = SubSeq(discardPile, 1, Len(discardPile) - 1)
       /\ discardPile' = <<topDiscard>>
       /\ UNCHANGED <<playerHand, aiHand, currentSuit, turn, phase,
                      showSuitPicker, pendingEightCard, playTimer>>
       /\ AIEffect(TRUE, aiTimer)
  ELSE LET drawnCard == Last(deck)
           pass == ~isValidMove(drawnCard, currentSuit, topDiscard)
       IN /\ pass => passTimers < MaxPassTimers
          /\ deck' = SubSeq(deck, 1, Len(deck) - 1)
          /\ playerHand' = Append(playerHand, drawnCard)
          /\ passTimers' = IF pass THEN passTimers + 1 ELSE passTimers
          /\ UNCHANGED <<aiHand, discardPile, currentSuit, turn, phase,
                         showSuitPicker, pendingEightCard, playTimer>>
          /\ AIEffect(TRUE, aiTimer)

\* handleDraw: a click on the draw pile.
handleDraw ==
  IF turn # "player" \/ phase # "playing" \/ showSuitPicker
  THEN UNCHANGED vars
  ELSE IF Len(deck) = 0
  THEN /\ passTimers < MaxPassTimers
       /\ passTimers' = passTimers + 1
       /\ UNCHANGED <<deck, playerHand, aiHand, discardPile, currentSuit, turn,
                      phase, showSuitPicker, pendingEightCard, aiTimer, playTimer>>
  ELSE LET drawnCard == Last(deck)
           pass == ~isValidMove(drawnCard, currentSuit, topDiscard)
       IN /\ pass => passTimers < MaxPassTimers
          /\ deck' = SubSeq(deck, 1, Len(deck) - 1)
          /\ playerHand' = Append(playerHand, drawnCard)
          /\ passTimers' = IF pass THEN passTimers + 1 ELSE passTimers
          /\ UNCHANGED <<aiHand, discardPile, currentSuit, turn, phase,
                         showSuitPicker, pendingEightCard, playTimer>>
          /\ AIEffect(TRUE, aiTimer)

DrawClick ==
  /\ Opening => Len(legalCards) = 0
  /\ handleDraw

\* setTimeout(() => setTurn('ai'), ...) of handleDraw fires.  A deferred AI
\* play that is pending was scheduled earlier with a delay no longer than this
\* timer's, so it fires first.
PassFire ==
  /\ passTimers > 0
  /\ playTimer = NULL
  /\ passTimers' = passTimers - 1
  /\ turn' = "ai"
  /\ UNCHANGED <<deck, playerHand, aiHand, discardPile, currentSuit, phase,
                 showSuitPicker, pendingEightCard, playTimer>>
  /\ AIEffect(FALSE, aiTimer)

\* The suit the AI names for an 8: the first key of suitCounts after a stable
\* sort by descending count; keys are in order of first occurrence in the hand.
bestSuit(hand, card) ==
  LET rest == Without(hand, card)
      keys == {c.suit : c \in Range(rest)}
      count(s) == Len(SelectSeq(rest, LAMBDA c : c.suit = s))
      first(s) == CHOOSE i \in 1..Len(rest) :
                    /\ rest[i].suit = s
                    /\ \A j \in 1..(i - 1) : rest[j].suit # s
  IN IF keys = {} THEN "hearts"
     ELSE CHOOSE s \in keys :
            \A t \in keys \ {s} :
              \/ count(s) > count(t)
              \/ count(s) = count(t) /\ first(s) < first(t)

\* playCard(card, true) without setCurrentSuit(card.suit).
playCardPlayerKeepsSuit(card) ==
  IF card.rank = "8"
  THEN /\ pendingEightCard' = card
       /\ showSuitPicker' = TRUE
       /\ UNCHANGED <<deck, playerHand, aiHand, discardPile, currentSuit, turn,
                      phase, passTimers, aiTimer, playTimer>>
  ELSE /\ playerHand' = Without(playerHand, card)
       /\ discardPile' = Append(discardPile, card)
       /\ currentSuit' = currentSuit
       /\ IF Len(playerHand) = 1
          THEN phase' = "gameOver" /\ turn' = turn
          ELSE turn' = "ai" /\ phase' = phase
       /\ UNCHANGED <<deck, aiHand, showSuitPicker, pendingEightCard,
                      passTimers, playTimer>>
       /\ AIEffect(FALSE, aiTimer)

\* playCard(card, true): the player branch.
playCardPlayer(card) ==
  IF card.rank = "8"
  THEN /\ pendingEightCard' = card
       /\ showSuitPicker' = TRUE
       /\ UNCHANGED <<deck, playerHand, aiHand, discardPile, currentSuit, turn,
                      phase, passTimers, aiTimer, playTimer>>
  ELSE /\ playerHand' = Without(playerHand, card)
       /\ discardPile' = Append(discardPile, card)
       /\ currentSuit' = card.suit
       /\ IF Len(playerHand) = 1
          THEN phase' = "gameOver" /\ turn' = turn
          ELSE turn' = "ai" /\ phase' = phase
       /\ UNCHANGED <<deck, aiHand, showSuitPicker, pendingEightCard,
                      passTimers, playTimer>>
       /\ AIEffect(FALSE, aiTimer)

\* playCard(card, false): the AI branch, called from a timer callback whose
\* render had aiHand = hand.
playCardAI(card, hand) ==
  /\ aiHand' = Without(aiHand, card)
  /\ discardPile' = Append(discardPile, card)
  /\ currentSuit' = IF card.rank = "8" THEN bestSuit(hand, card) ELSE card.suit
  /\ IF Len(hand) = 1
     THEN phase' = "gameOver" /\ turn' = turn
     ELSE turn' = "player" /\ phase' = phase

\* isPlayable without the test of showSuitPicker.
isPlayableWhilePicking(card) ==
  /\ turn = "player"
  /\ phase = "playing"
  /\ isValidMove(card, currentSuit, topDiscard)

\* isPlayable of a card of the player's hand: the card's onClick is attached
\* only when it holds.
isPlayable(card) ==
  /\ turn = "player"
  /\ phase = "playing"
  /\ isValidMove(card, currentSuit, topDiscard)
  /\ ~showSuitPicker

\* A click on a playable card of the player's hand.
PlayerPlay ==
  \E card \in Range(playerHand) :
    /\ isPlayable(card)
    /\ Opening => card = legalCards[1]
    /\ playCardPlayer(card)

\* A click on the card of the player's hand: Card attaches
\* () => playCard(card, true) only while isPlayable (onClick={isPlayable ?
\* onClick : undefined}).
CardClick(card) ==
  IF isPlayable(card) THEN playCardPlayer(card) ELSE UNCHANGED vars

\* A click on a card of the player's hand that has no onClick.
IgnoredClick ==
  \E card \in Range(playerHand) :
    /\ ~isPlayable(card)
    /\ CardClick(card)

\* handleSuitPick without its first line (if (!pendingEightCard) return).
handleSuitPickNoGuard(suit) ==
  /\ playerHand' = Without(playerHand, pendingEightCard)
  /\ discardPile' = Append(discardPile, pendingEightCard)
  /\ currentSuit' = suit
  /\ pendingEightCard' = NULL
  /\ showSuitPicker' = FALSE
  /\ IF Len(playerHand) = 1
     THEN phase' = "gameOver" /\ turn' = turn
     ELSE turn' = "ai" /\ phase' = phase
  /\ UNCHANGED <<deck, aiHand, passTimers, playTimer>>
  /\ AIEffect(FALSE, aiTimer)

\* handleSuitPick: a suit button of the picker, rendered while showSuitPicker.
handleSuitPick(suit) ==
  IF pendingEightCard = NULL
  THEN UNCHANGED vars
  ELSE /\ playerHand' = Without(playerHand, pendingEightCard)
       /\ discardPile' = Append(discardPile, pendingEightCard)
       /\ currentSuit' = suit
       /\ pendingEightCard' = NULL
       /\ showSuitPicker' = FALSE
       /\ IF Len(playerHand) = 1
          THEN phase' = "gameOver" /\ turn' = turn
          ELSE turn' = "ai" /\ phase' = phase
       /\ UNCHANGED <<deck, aiHand, passTimers, playTimer>>
       /\ AIEffect(FALSE, aiTimer)

SuitPick ==
  /\ showSuitPicker
  /\ \E suit \in Range(SUITS) : handleSuitPick(suit)

\* The 1500 ms timer of the AI-turn effect fires.  A pending turn pass or
\* deferred play was scheduled before this timer with a delay no longer than
\* 1500 ms, so it has fired by now.
AIThink ==
  /\ aiTimer # NULL
  /\ passTimers = 0
  /\ playTimer = NULL
  /\ LET r == aiTimer
         playableCards ==
           SelectSeq(r.aiHand, LAMBDA c : isValidMove(c, r.currentSuit, r.topDiscard))
         nonEight == SelectSeq(playableCards, LAMBDA c : c.rank # "8")
     IN IF Len(playableCards) > 0
        THEN /\ \E cardToPlay \in (IF Len(nonEight) > 0 THEN Range(nonEight)
                                   ELSE {playableCards[1]}) :
                  playCardAI(cardToPlay, r.aiHand)
             /\ UNCHANGED <<deck, playerHand, showSuitPicker, pendingEightCard,
                            passTimers, playTimer>>
             /\ AIEffect(TRUE, NULL)
        ELSE IF Len(r.deck) > 0
        THEN LET drawnCard == Last(r.deck)
             IN /\ deck' = SubSeq(r.deck, 1, Len(r.deck) - 1)
                /\ aiHand' = Append(aiHand, drawnCard)
                /\ IF isValidMove(drawnCard, r.currentSuit, r.topDiscard)
                   THEN /\ playTimer' = [card |-> drawnCard, aiHand |-> r.aiHand]
                        /\ turn' = turn
                   ELSE /\ playTimer' = playTimer
                        /\ turn' = "player"
                /\ UNCHANGED <<playerHand, discardPile, currentSuit, phase,
                               showSuitPicker, pendingEightCard, passTimers>>
                /\ AIEffect(TRUE, NULL)
        ELSE /\ turn' = "player"
             /\ UNCHANGED <<deck, playerHand, aiHand, discardPile, currentSuit,
                            phase, showSuitPicker, pendingEightCard, passTimers,
                            playTimer>>
             /\ AIEffect(FALSE, NULL)

\* setTimeout(() => playCard(drawnCard, false), 1000) fires: playCard of the
\* render that scheduled the think timer, whose aiHand is the hand before the
\* draw.  The timer is never cleared.
AIPlayDrawn ==
  /\ playTimer # NULL
  /\ playCardAI(playTimer.card, playTimer.aiHand)
  /\ playTimer' = NULL
  /\ UNCHANGED <<deck, playerHand, showSuitPicker, pendingEightCard, passTimers>>
  /\ AIEffect(TRUE, aiTimer)

Next ==
  \/ Mount
  \/ Reset
  \/ DrawClick
  \/ PassFire
  \/ PlayerPlay
  \/ IgnoredClick
  \/ SuitPick
  \/ AIThink
  \/ AIPlayDrawn

Spec == Init /\ [][Next]_vars

-----------------------------------------------------------------------------
\* The four card containers, concatenated.
allCards == deck \o playerHand \o aiHand \o discardPile

\* C1: in every state after the first deal the deck, the two hands and the
\* discard pile hold 52 cards together and no card id occurs twice in them.
C1_CardConservation ==
  phase # "dealing" =>
    /\ Len(deck) + Len(playerHand) + Len(aiHand) + Len(discardPile) = 52
    /\ NoDup(allCards)

\* C2: after the first deal the phase is gameOver exactly when a hand is
\* empty; in particular the AI is declared winner only with an empty hand.
C2_GameOverIffEmptyHand ==
  phase # "dealing" =>
    (phase = "gameOver" <=> (Len(playerHand) = 0 \/ Len(aiHand) = 0))

\* A deferred play is pending that was scheduled before the last initGame:
\* within one game the AI's hand is the captured hand plus the drawn card from
\* the draw until the deferred play, so it differs only once initGame has
\* replaced the hand.
StalePlay ==
  /\ playTimer # NULL
  /\ aiHand # Append(playTimer.aiHand, playTimer.card)

\* C3: a reset discards every in-flight AI action: it leaves no think timer
\* pending, and a deferred play scheduled before it changes nothing of the
\* new game's deck, hands, discard pile, suit, turn or phase.
C3_ResetDiscardsInFlight ==
  [][/\ Reset => aiTimer' = NULL
     /\ (StalePlay /\ AIPlayDrawn) =>
          UNCHANGED <<deck, playerHand, aiHand, discardPile, currentSuit, turn, phase>>]_vars

\* The state initGame leaves: a fresh deal with the human to move.  The four
\* containers hold 52 cards and every one of the 52 cards of createDeck, so
\* no card occurs twice.
Dealt ==
  /\ phase = "playing"
  /\ turn = "player"
  /\ Len(playerHand) = 8
  /\ Len(aiHand) = 8
  /\ Len(discardPile) = 1
  /\ Len(deck) = 35
  /\ Range(allCards) = Range(createDeck)
  /\ currentSuit = discardPile[1].suit

\* C4: initGame, called in any reachable state (also right after itself),
\* leaves phase playing, turn player, two hands of 8, one discard, a deck of
\* 35, the 52 distinct cards split over the four containers, and the active
\* suit that of the single discard.
C4_InitGameDeals ==
  [][(Mount \/ Reset) => Dealt']_vars

\* C4 witness: a fresh deal made by a restart in the middle of a game (the
\* picker of the old game is still open and a turn pass is still pending).
C4_Witness ==
  /\ Dealt
  /\ showSuitPicker
  /\ passTimers > 0

\* C5: a pending wild is set only between the human's click on an 8 and the
\* suit pick: whenever it is set the phase is playing, it is the human's turn
\* and the pending card is an 8 of the player's hand.
C5_PendingWildOnlyOnPlayerTurn ==
  (showSuitPicker \/ pendingEightCard # NULL) =>
    /\ phase = "playing"
    /\ turn = "player"
    /\ pendingEightCard # NULL
    /\ pendingEightCard.rank = "8"
    /\ pendingEightCard \in Range(playerHand)

\* C6: game over is terminal: from a gameOver state every step other than a
\* restart leaves the deck, both hands, the discard pile and the active suit
\* unchanged and the phase gameOver.
C6_GameOverTerminal ==
  [][(phase = "gameOver" /\ ~Reset) =>
       (UNCHANGED table /\ phase' = "gameOver")]_vars

\* isValidMove as the rules state it: an 8, or the active suit, or the rank of
\* the top discard.
legalByRule(card, suit, top) ==
  \/ card.rank = "8"
  \/ card.suit = suit
  \/ card.rank = top.rank

\* C7: isValidMove accepts a card exactly when its rank is 8, its suit is the
\* active suit or its rank is that of the top discard, whatever the hands
\* are; so the legal cards of the player's hand include every 8 of the hand.
C7_IsValidMoveRule ==
  phase # "dealing" =>
    /\ \A card \in Range(createDeck) :
         \A suit \in Range(SUITS) \cup {"null", currentSuit} :
           isValidMove(card, suit, topDiscard) <=> legalByRule(card, suit, topDiscard)
    /\ \A card \in Range(playerHand) :
         card.rank = "8" => card \in Range(legalCards)

\* C7 witness: the human's click on an 8 was accepted although the 8 matches
\* neither the active suit nor the rank of the top discard.
C7_Witness ==
  /\ pendingEightCard # NULL
  /\ pendingEightCard \in Range(playerHand)
  /\ pendingEightCard.suit # currentSuit
  /\ topDiscard.rank # "8"

\* The human's click on a playable 8 of the hand.
ClickEight ==
  \E card \in Range(playerHand) :
    /\ card.rank = "8"
    /\ isPlayable(card)
    /\ playCardPlayer(card)

\* C8: the human's click on an 8 sets the pending wild to that card and
\* leaves phase playing, turn player and the deck, hands, discard pile and
\* active suit unchanged, and they stay so until the suit is picked.
C8_EightWaitsForSuit ==
  [][/\ ClickEight =>
          /\ phase' = "playing" /\ turn' = "player"
          /\ pendingEightCard' \in Range(playerHand) /\ pendingEightCard'.rank = "8"
          /\ UNCHANGED table
     /\ (showSuitPicker /\ phase = "playing" /\ turn = "player"
           /\ ~SuitPick /\ ~Reset) =>
          /\ phase' = "playing" /\ turn' = "player"
          /\ UNCHANGED table]_vars

\* The human's click on the last card of the hand, not an 8.
PlayLastCard ==
  \E card \in Range(playerHand) :
    /\ Len(playerHand) = 1
    /\ card.rank # "8"
    /\ isPlayable(card)
    /\ playCardPlayer(card)

\* C9: when the human plays the last card and it is not an 8, the phase
\* becomes gameOver in that step with the turn still the player's, and the
\* turn stays the player's for as long as the phase is gameOver.
C9_WinKeepsTurn ==
  [][/\ PlayLastCard => (phase' = "gameOver" /\ turn' = "player")
     /\ (phase = "gameOver" /\ Len(playerHand) = 0 /\ turn = "player"
           /\ topDiscard.rank # "8" /\ phase' = "gameOver") =>
          turn' = "player"]_vars

\* The AI's captured hand has no card that isValidMove accepts.
aiHasNoLegalCard ==
  \A c \in Range(aiTimer.aiHand) :
    ~isValidMove(c, aiTimer.currentSuit, aiTimer.topDiscard)

aiLegalNonEight ==
  {c \in Range(aiHand) : c.rank # "8" /\ isValidMove(c, currentSuit, topDiscard)}

\* A step in which the AI puts a card on the discard pile: the think timer
\* plays a card of the hand, or the deferred play of a drawn card fires.
AIPlays ==
  /\ AIThink \/ AIPlayDrawn
  /\ Len(discardPile') = Len(discardPile) + 1

\* C11: on the AI's turn, whenever the AI's hand holds a legal card that is
\* not an 8, the card the AI plays is one of the legal non-8 cards of its
\* hand; it plays an 8 only when every legal card of its hand is an 8.
C11_EightOnlyWhenForced ==
  [][(AIPlays /\ turn = "ai" /\ phase = "playing" /\ aiLegalNonEight # {}) =>
       Last(discardPile') \in aiLegalNonEight]_vars

-----------------------------------------------------------------------------
\* The deal on its own: initGame applied to results of shuffle.

\* One step of shuffle's loop: [newDeck[i], newDeck[j]] = [newDeck[j], newDeck[i]].
Swap(s, i, j) ==
  [k \in 1..Len(s) |-> IF k = i THEN s[j] ELSE IF k = j THEN s[i] ELSE s[k]]

\* Bound of the deals explored on their own: the one step of shuffle's loop
\* that draws j # i draws j no further than this below i.
MaxSwapDistance == 3

\* The results of shuffle(createDeck()) in which at most one step of the loop
\* draws j # i: the identity permutation (j = i in every step) and the
\* transpositions of two cards at most MaxSwapDistance apart.
OneSwapShuffles ==
  {Swap(createDeck, i, IF i > d THEN i - d ELSE i) :
     i \in 1..Len(createDeck), d \in 0..MaxSwapDistance}

\* The mount effect, with shuffle returning one of OneSwapShuffles.
MountDeal ==
  /\ phase = "dealing"
  /\ \E p \in OneSwapShuffles : initGame(p)

\* A restart button, with shuffle returning one of OneSwapShuffles.
ResetDeal ==
  /\ phase # "dealing"
  /\ \E p \in OneSwapShuffles : initGame(p)

DealNext ==
  \/ MountDeal
  \/ ResetDeal

DealSpec == Init /\ [][DealNext]_vars

\* initGame when shuffle returned the deck in build order.
IdentityDeal ==
  /\ MountDeal \/ ResetDeal
  /\ initGame(createDeck)

\* The two hands initGame deals from the deck in build order.
IdentityHands ==
  /\ playerHand = SubSeq(createDeck, 1, 8)
  /\ aiHand = SubSeq(createDeck, 9, 16)

\* C12 as stated: with the identity permutation as shuffle result the player
\* gets the first 8 cards in build order, the AI the next 8, and the first
\* discard is the 17th card in build order.
C12_IdentityDealSeventeenth ==
  [][IdentityDeal => (IdentityHands' /\ discardPile' = <<createDeck[17]>>)]_vars

\* C12 amended: with the identity permutation as shuffle result the player
\* gets the first 8 cards in build order, the AI the next 8, the first
\* discard is the last (52nd) card in build order and the deck is cards 17 to
\* 51: the hands come off the front of the sequence, the discard off its back.
C12_IdentityDealLast ==
  [][IdentityDeal =>
       /\ IdentityHands'
       /\ discardPile' = <<createDeck[52]>>
       /\ deck' = SubSeq(createDeck, 17, 51)]_vars

\* C12 witness: the table right after the deal of the deck in build order:
\* hearts A to 8 with the player, the king of spades turned up.
C12_Witness ==
  /\ phase = "playing"
  /\ playerHand = Hearts(<<"A", "2", "3", "4", "5", "6", "7", "8">>)
  /\ aiHand = Hearts(<<"9", "10", "J", "Q", "K">>) \o Diamonds(<<"A", "2", "3">>)
  /\ discardPile = <<CardData("K", "spades")>>
  /\ Len(deck) = 35
  /\ deck[1] = CardData("4", "diamonds")

-----------------------------------------------------------------------------
\* The human's first move after deals that give the player clubs and one 8
\* and turn up a heart.

\* The clubs other than the 8, in build order.
NonEightClubs == SelectSeq(Clubs(RANKS), LAMBDA c : c.rank # "8")

\* s with x put in at position i.
InsertAt(s, i, x) == SubSeq(s, 1, i - 1) \o <<x>> \o SubSeq(s, i, Len(s))

\* The hands of HandSize cards made of HandSize - 1 clubs of consecutive
\* ranks and one 8 of any suit, at any place of the hand.
ClubsAndEightHands ==
  {InsertAt(SubSeq(NonEightClubs, k, k + HandSize - 2), i, CardData("8", SUITS[n])) :
     k \in 1..(Len(NonEightClubs) - HandSize + 2), i \in 1..HandSize,
     n \in 1..Len(SUITS)}

\* The results of shuffle(createDeck()) that deal the player one of these
\* hands and turn up a heart, the other cards staying in build order.
ClubsAndEightShuffles ==
  {x[1] \o SelectSeq(createDeck, LAMBDA c : c \notin Range(x[1]) \cup {x[2]}) \o <<x[2]>> :
     x \in {y \in ClubsAndEightHands \X Range(Hearts(RANKS)) : y[2] \notin Range(y[1])}}

\* The mount effect, with shuffle returning one of ClubsAndEightShuffles.
MountClubsAndEight ==
  /\ phase = "dealing"
  /\ \E p \in ClubsAndEightShuffles : initGame(p)

FirstMoveNext ==
  \/ MountClubsAndEight
  \/ PlayerPlay
  \/ SuitPick

FirstMoveSpec == Init /\ [][FirstMoveNext]_vars

\* The hand holds exactly one 8 and otherwise only clubs.
ClubsPlusOneEight(hand) ==
  /\ Cardinality({c \in Range(hand) : c.rank = "8"}) = 1
  /\ \A c \in Range(hand) : c.rank = "8" \/ c.suit = "clubs"

\* C13 as stated: whenever the active suit is hearts and the player's hand
\* is clubs plus exactly one 8, the legal cards of the hand are that 8 alone.
C13_OnlyTheEight ==
  (phase = "playing" /\ currentSuit = "hearts" /\ ClubsPlusOneEight(playerHand)) =>
    Range(legalCards) = {c \in Range(playerHand) : c.rank = "8"}

\* C13 amended: whenever the active suit is hearts, the player's hand is
\* clubs plus exactly one 8 and no club of the hand has the rank of the top
\* discard, the legal cards of the hand are that 8 alone.
C13_OnlyTheEightNoRankMatch ==
  (/\ phase = "playing"
   /\ currentSuit = "hearts"
   /\ ClubsPlusOneEight(playerHand)
   /\ \A c \in Range(playerHand) : c.rank = "8" \/ c.rank # topDiscard.rank) =>
    Range(legalCards) = {c \in Range(playerHand) : c.rank = "8"}

\* C13 witness: with hearts active, clubs and one 8 in hand and no rank
\* match, the human has clicked the 8 (not the 8 of hearts) and it was
\* accepted.
C13_Witness ==
  /\ phase = "playing"
  /\ currentSuit = "hearts"
  /\ ClubsPlusOneEight(playerHand)
  /\ \A c \in Range(playerHand) : c.rank = "8" \/ c.rank # topDiscard.rank
  /\ pendingEightCard \in Range(playerHand)
  /\ pendingEightCard.suit # "hearts"

-----------------------------------------------------------------------------
\* The human may act: it is the player's turn in phase playing and no wild is
\* pending.
humanMayAct ==
  /\ turn = "player"
  /\ phase = "playing"
  /\ pendingEightCard = NULL

\* C14: a click on a card of the hand that fails the move rule, and a click
\* on a card or on the draw pile when it is not the player's turn, the phase
\* is not playing or a wild is pending, changes nothing: not the deck, hands,
\* discard pile, active suit, turn, phase or pending wild, and no timer is
\* scheduled.
C14_IllegalActionRejected ==
  [][/\ (DrawClick /\ ~humanMayAct) => UNCHANGED vars
     /\ \A card \in Range(playerHand) :
          (/\ CardClick(card)
           /\ ~humanMayAct \/ ~legalByRule(card, currentSuit, topDiscard)) =>
            UNCHANGED vars]_vars

\* C14 witness: a wild is pending while the hand holds another legal card and
\* the deck is not empty, so that both a play and a draw can be attempted.
C14_Witness ==
  /\ phase = "playing"
  /\ turn = "player"
  /\ pendingEightCard # NULL
  /\ Len(deck) > 0
  /\ \E c \in Range(playerHand) :
       c # pendingEightCard /\ isValidMove(c, currentSuit, topDiscard)

-----------------------------------------------------------------------------
\* The handlers called as an interface: handleSuitPick may be called in any
\* state, not only from the buttons of the open picker.

\* A call of handleSuitPick, whether a wild is pending or not.
ResolveWildCall ==
  \E suit \in Range(SUITS) : handleSuitPick(suit)

CallNext ==
  \/ Next
  \/ ResolveWildCall

CallSpec == Init /\ [][CallNext]_vars

\* C15: handleSuitPick called while no wild is pending changes nothing: the
\* deck, the hands, the discard pile, the active suit, the turn and the phase
\* stay as they are.
C15_NoPendingWildRejected ==
  [][(pendingEightCard = NULL /\ ResolveWildCall) =>
       UNCHANGED <<deck, playerHand, aiHand, discardPile, currentSuit, turn, phase>>]_vars

\* C15 witness: an 8 has been put down and another suit named, it is the
\* AI's turn and the picker is closed: no wild is pending when a further call
\* of handleSuitPick arrives.
C15_Witness ==
  /\ phase = "playing"
  /\ turn = "ai"
  /\ pendingEightCard = NULL
  /\ ~showSuitPicker
  /\ Len(discardPile) > 1
  /\ topDiscard.rank = "8"
  /\ currentSuit # topDiscard.suit
  /\ aiTimer # NULL
  /\ Len(playerHand) > 0

-----------------------------------------------------------------------------
\* One game from the mount on, in which the human never clicks a restart
\* button.
GameNext ==
  \/ Mount
  \/ DrawClick
  \/ PassFire
  \/ PlayerPlay
  \/ IgnoredClick
  \/ SuitPick
  \/ AIThink
  \/ AIPlayDrawn

GameSpec == Init /\ [][GameNext]_vars

-----------------------------------------------------------------------------
\* A step that appends a card to the discard pile.
CardPlayed == Len(discardPile') = Len(discardPile) + 1

\* C16: every card put on the discard pile by a play (a human play of a
\* non-8 card, a human suit pick, an AI play, the AI's deferred play of a
\* card it drew) is, when it is put there, in the hand of the side that plays
\* it and accepted by isValidMove against the current top discard and active
\* suit.
C16_PlayedCardInHandAndLegal ==
  [][/\ ((PlayerPlay \/ SuitPick) /\ CardPlayed) =>
          /\ Last(discardPile') \in Range(playerHand)
          /\ isValidMove(Last(discardPile'), currentSuit, topDiscard)
     /\ ((AIThink \/ AIPlayDrawn) /\ CardPlayed) =>
          /\ Last(discardPile') \in Range(aiHand)
          /\ isValidMove(Last(discardPile'), currentSuit, topDiscard)]_vars

-----------------------------------------------------------------------------
\* The active suit is that of the top discard unless the top discard is an 8.
SuitOfTopDiscard ==
  topDiscard.rank # "8" => currentSuit = topDiscard.suit

\* C17: the active suit tracks the last completed play: a step that plays a
\* non-8 card sets it to that card's suit, a step that completes the play of
\* an 8 sets it to one of the four suits, and no other step than a deal
\* changes it; so after every step, if the top discard is not an 8 the active
\* suit is the top discard's suit.
C17_ActiveSuitTracksPlay ==
  [][/\ CardPlayed =>
          IF Last(discardPile').rank # "8"
          THEN currentSuit' = Last(discardPile').suit
          ELSE currentSuit' \in Range(SUITS)
     /\ (~CardPlayed /\ ~Mount /\ ~Reset) => currentSuit' = currentSuit
     /\ phase' # "dealing" => SuitOfTopDiscard']_vars

\* C17 witness: the last play matched by rank and changed the active suit:
\* the top discard and the card under it, neither an 8, differ in suit, and
\* the active suit is the top discard's.
C17_Witness ==
  /\ Len(discardPile) > 1
  /\ topDiscard.rank # "8"
  /\ discardPile[Len(discardPile) - 1].rank = topDiscard.rank
  /\ discardPile[Len(discardPile) - 1].suit # topDiscard.suit
  /\ currentSuit = topDiscard.suit

-----------------------------------------------------------------------------
\* A human draw has ended the turn and its delayed setTurn('ai') has not
\* fired yet.
PassPending ==
  /\ passTimers > 0
  /\ turn = "player"
  /\ phase = "playing"

\* C18: between a human draw that ends the turn (the drawn card is not legal,
\* or the deck is empty) and the turn becoming the AI's, no further click of
\* the human on the draw pile, a card or a suit changes anything; and a human
\* draw of a legal card leaves the turn with the player and schedules no
\* pass.
C18_DrawPassesAtOnce ==
  [][/\ (PassPending /\ (DrawClick \/ PlayerPlay \/ SuitPick)) => UNCHANGED vars
     /\ (/\ DrawClick
         /\ humanMayAct
         /\ Len(deck) > 0
         /\ isValidMove(Last(deck), currentSuit, topDiscard)) =>
          (turn' = "player" /\ passTimers' = passTimers)]_vars

-----------------------------------------------------------------------------
\* The human has neither drawn nor completed a play since the last deal: a
\* draw takes a card off the deck of 35, a completed play takes one out of
\* the hand of 8.
HumanHasNotMoved ==
  /\ Len(deck) = 35
  /\ Len(playerHand) = 8

\* C19: a restart leaves the turn with the player, and the turn stays the
\* player's for as long as the human has neither drawn nor completed a play
\* in the new game; in particular no setTurn('ai') scheduled by a draw of the
\* previous game hands the turn to the AI.
C19_TurnStaysAfterReset ==
  [][/\ Reset => turn' = "player"
     /\ (/\ phase = "playing"
         /\ turn = "player"
         /\ HumanHasNotMoved
         /\ HumanHasNotMoved') => turn' = "player"]_vars


-----------------------------------------------------------------------------
\* A game without restarts in which every timer that is set fires: the pass
\* timers of handleDraw, the think timer of the AI-turn effect and the
\* deferred play of a drawn card.
FairGameSpec ==
  /\ Init
  /\ [][GameNext]_vars
  /\ WF_vars(PassFire)
  /\ WF_vars(AIThink)
  /\ WF_vars(AIPlayDrawn)

\* turn === 'ai' && phase === 'playing', the condition of the AI-turn effect.
OpponentTurn == turn = "ai" /\ phase = "playing"

\* The think timer plays a card of the hand.
AIPlaysFromHand ==
  /\ AIThink
  /\ playTimer = NULL
  /\ CardPlayed
  /\ Last(discardPile') \in Range(aiHand)
  /\ aiHand' = Without(aiHand, Last(discardPile'))
  /\ deck' = deck

\* The think timer draws the top card of the deck.
AIDraws ==
  /\ AIThink
  /\ playTimer = NULL
  /\ Len(deck) > 0
  /\ deck' = SubSeq(deck, 1, Len(deck) - 1)
  /\ aiHand' = Append(aiHand, Last(deck))
  /\ discardPile' = discardPile

\* The deferred play puts the card drawn in this turn on the discard pile.
AIPlaysDrawnCard ==
  /\ AIPlayDrawn
  /\ CardPlayed
  /\ Last(discardPile') = Last(aiHand)
  /\ aiHand' = SubSeq(aiHand, 1, Len(aiHand) - 1)
  /\ deck' = deck

\* The think timer passes: nothing moves.
AIPassesOnEmptyDeck ==
  /\ AIThink
  /\ Len(deck) = 0
  /\ UNCHANGED <<deck, aiHand, discardPile>>

\* C20: opponent turns complete without human input.  In a game without
\* restarts whose timers all fire, a state with phase = playing and
\* turn = ai is followed by a state with turn = player or phase = gameOver;
\* and the step that ends the opponent's turn is the AI playing one card of
\* its hand, the AI drawing one card that is not legal, the AI playing the
\* card it drew in this turn, or the AI passing with the deck empty, while a
\* step inside the turn that moves the deck or the AI's hand is the draw of
\* one legal card with its play scheduled.
C20_OpponentTurnCompletes ==
  /\ OpponentTurn ~> ~OpponentTurn
  /\ [][OpponentTurn =>
          /\ ~OpponentTurn' =>
               \/ AIPlaysFromHand
               \/ AIDraws /\ ~isValidMove(Last(deck), currentSuit, topDiscard)
               \/ AIPlaysDrawnCard
               \/ AIPassesOnEmptyDeck
          /\ (OpponentTurn' /\ <<deck, aiHand>>' # <<deck, aiHand>>) =>
               /\ AIDraws
               /\ isValidMove(Last(deck), currentSuit, topDiscard)
               /\ playTimer' # NULL]_vars


-----------------------------------------------------------------------------
\* The number of cards of a suit in a hand.
suitCount(hand, suit) == Len(SelectSeq(hand, LAMBDA c : c.suit = suit))

\* A timer callback of the AI puts an 8 on the discard pile.
AIPlaysEight == AIPlays /\ Last(discardPile').rank = "8"

\* C21: when the opponent plays a rank-8 card, the active suit it sets is a
\* suit whose count among the opponent's remaining hand (the played 8 taken
\* out) is maximal, and it is hearts when that remaining hand is empty.
C21_AINamesMostFrequentSuit ==
  [][AIPlaysEight =>
       IF aiHand' = <<>>
       THEN currentSuit' = "hearts"
       ELSE \A n \in 1..Len(SUITS) :
              suitCount(aiHand', currentSuit') >= suitCount(aiHand', SUITS[n])]_vars

====
